---- MODULE Spec2Model ----
(***************************************************************************)
(* interval_map<K,V> of src/main.cc with K = V = unsigned int: a std::map  *)
(* of breakpoints, its constructor, assign and operator[], and the random  *)
(* driver IntervalMapTest that mirrors every assign into an array A.       *)
(***************************************************************************)
EXTENDS Integers, FiniteSets, Sequences, TLC

\* ---- bounds ----
MaxKey == 4          \* keys passed to assign are 0..MaxKey
MaxVal == 2          \* values passed to assign are 0..MaxVal

Keys == 0..MaxKey
Values == 0..MaxVal

\* keys and values of the concrete scenario: interval_map(0), assign(2,5,7),
\* assign(4,8,7), assign(0,10,0)
ScenKeys == {0, 2, 4, 5, 8, 10}
ScenValues == {0, 7}

\* std::numeric_limits<unsigned int>::lowest()
Lowest == 0

\* the past-the-end position m_map.end(); every other position is the key of
\* the entry it refers to
END == -1

NoCall == [keyBegin |-> -1, keyEnd |-> -1, val |-> -1]

VARIABLES
    m_map,      \* std::map<K,V> m_map: a function from the stored keys to values
    A,          \* the reference array of IntervalMapTest
    pre_map,    \* m_map as it was when the last assign was entered
    call,       \* the arguments of the last assign, NoCall before the first
    scenario    \* how many calls of the concrete scenario the history is, -1 once it is not

vars == <<m_map, A, pre_map, call, scenario>>

\* ---- std::map primitives ----
MinOf(S) == CHOOSE x \in S : \A y \in S : x <= y
MaxOf(S) == CHOOSE x \in S : \A y \in S : y <= x

\* first position whose key is >= k
lower_bound(m, k) ==
    IF \E x \in DOMAIN m : x >= k THEN MinOf({x \in DOMAIN m : x >= k}) ELSE END

\* first position whose key is > k
upper_bound(m, k) ==
    IF \E x \in DOMAIN m : x > k THEN MinOf({x \in DOMAIN m : x > k}) ELSE END

\* --it
Prev(m, it) ==
    IF it = END THEN MaxOf(DOMAIN m) ELSE MaxOf({x \in DOMAIN m : x < it})

\* ++it
Succ(m, it) ==
    IF \E x \in DOMAIN m : x > it THEN MinOf({x \in DOMAIN m : x > it}) ELSE END

\* m_map.insert(hint, make_pair(k, v)): an existing key is left alone
Insert(m, k, v) ==
    IF k \in DOMAIN m THEN m ELSE [x \in DOMAIN m \cup {k} |-> IF x = k THEN v ELSE m[x]]

\* m_map.erase(it)
Erase(m, it) == [x \in DOMAIN m \ {it} |-> m[x]]

\* m_map.erase(first, last), both positions of entries
EraseRange(m, first, last) ==
    [x \in {y \in DOMAIN m : ~(first <= y /\ y < last)} |-> m[x]]

\* ---- interval_map ----
\* interval_map(val)
Construct(val) == [x \in {Lowest} |-> val]

\* operator[](key)
Lookup(m, key) == m[Prev(m, upper_bound(m, key))]

\* assign with the ++eraseBegin of line 40 left out, so that the range erase
\* starts at the entry of keyBegin itself; where that has removed the first
\* entry and keyBegin has no predecessor, keyBegin is inserted
AssignBegin_NoAdvance(m, keyBegin, val) ==
    LET begin == lower_bound(m, keyBegin) IN
    IF begin # END /\ begin = keyBegin
    THEN [map |-> [m EXCEPT ![begin] = val],
          endValue |-> m[begin],
          erase |-> TRUE,
          begin |-> begin,
          eraseBegin |-> begin,
          inserted |-> FALSE]
    ELSE IF (\A x \in DOMAIN m : x > keyBegin) \/ m[Prev(m, begin)] # val
         THEN LET m1 == Insert(m, keyBegin, val) IN
              [map |-> m1,
               endValue |-> IF \A x \in DOMAIN m : x > keyBegin THEN val ELSE m[Prev(m, begin)],
               erase |-> TRUE,
               begin |-> keyBegin,
               eraseBegin |-> Succ(m1, keyBegin),
               inserted |-> TRUE]
         ELSE [map |-> m,
               endValue |-> m[Prev(m, begin)],
               erase |-> TRUE,
               begin |-> begin,
               eraseBegin |-> begin,
               inserted |-> FALSE]

\* assign with the begin->second = val of line 39 left out
AssignBegin_NoOverwrite(m, keyBegin, val) ==
    LET begin == lower_bound(m, keyBegin) IN
    IF begin # END /\ begin = keyBegin
    THEN LET eraseBegin == Succ(m, begin) IN
         [map |-> m,
          endValue |-> m[begin],
          erase |-> (eraseBegin # END),
          begin |-> begin,
          eraseBegin |-> eraseBegin,
          inserted |-> FALSE]
    ELSE LET prev == Prev(m, begin) IN
         IF m[prev] # val
         THEN LET m1 == Insert(m, keyBegin, val) IN
              [map |-> m1,
               endValue |-> m[prev],
               erase |-> TRUE,
               begin |-> keyBegin,
               eraseBegin |-> Succ(m1, keyBegin),
               inserted |-> TRUE]
         ELSE [map |-> m,
               endValue |-> m[prev],
               erase |-> TRUE,
               begin |-> begin,
               eraseBegin |-> begin,
               inserted |-> FALSE]

\* assign, "insert keyBegin": the locals after line 57
AssignBegin(m, keyBegin, val) ==
    LET begin == lower_bound(m, keyBegin) IN
    IF begin # END /\ begin = keyBegin
    THEN LET eraseBegin == Succ(m, begin) IN
         [map |-> [m EXCEPT ![begin] = val],
          endValue |-> m[begin],
          erase |-> (eraseBegin # END),
          begin |-> begin,
          eraseBegin |-> eraseBegin,
          inserted |-> FALSE]
    ELSE LET prev == Prev(m, begin) IN
         IF m[prev] # val
         THEN LET m1 == Insert(m, keyBegin, val) IN
              [map |-> m1,
               endValue |-> m[prev],
               erase |-> TRUE,
               begin |-> keyBegin,
               eraseBegin |-> Succ(m1, keyBegin),
               inserted |-> TRUE]
         ELSE [map |-> m,
               endValue |-> m[prev],
               erase |-> TRUE,
               begin |-> begin,
               eraseBegin |-> begin,
               inserted |-> FALSE]

\* the value line 68-69 leaves in endValue
EndValueAt(m, prev, begin, endValue) ==
    IF prev # begin THEN m[prev] ELSE endValue

\* lines 62-63 left out: the flag erase is not cleared
EraseFlag_Kept(erase, eraseBegin, eraseEnd) == erase

\* the flag erase after lines 62-63
EraseFlag(erase, eraseBegin, eraseEnd) ==
    IF eraseEnd = eraseBegin THEN FALSE ELSE erase

\* assign, "insert keyEnd": the locals after line 77
AssignEnd(s, keyEnd, val) ==
    LET m == s.map
        end == lower_bound(m, keyEnd)
        erase == EraseFlag(s.erase, s.eraseBegin, end)
    IN
    IF end = END \/ end # keyEnd
    THEN LET prev == Prev(m, end)
             endValue == EndValueAt(m, prev, s.begin, s.endValue)
         IN
         IF endValue # val
         THEN LET m1 == Insert(m, keyEnd, endValue)
                  it == Succ(m1, keyEnd)
                  redundant == it # END /\ m1[it] = endValue
              IN
              [map |-> IF redundant THEN Erase(m1, it) ELSE m1,
               endValue |-> endValue,
               erase |-> erase,
               begin |-> s.begin,
               eraseBegin |-> s.eraseBegin,
               eraseEnd |-> keyEnd,
               inserted |-> TRUE,
               erased |-> IF redundant THEN it ELSE END]
         ELSE [map |-> m,
               endValue |-> endValue,
               erase |-> erase,
               begin |-> s.begin,
               eraseBegin |-> s.eraseBegin,
               eraseEnd |-> end,
               inserted |-> FALSE,
               erased |-> END]
    ELSE [map |-> m,
          endValue |-> s.endValue,
          erase |-> erase,
          begin |-> s.begin,
          eraseBegin |-> s.eraseBegin,
          eraseEnd |-> end,
          inserted |-> FALSE,
          erased |-> END]

\* the condition of line 78
DoErase(s) ==
    /\ s.erase
    /\ s.eraseBegin # END
    /\ s.eraseEnd # END
    /\ s.eraseBegin < s.eraseEnd

\* the range erase started at begin instead of eraseBegin
AssignErase_FromBegin(s) ==
    IF DoErase(s) THEN EraseRange(s.map, s.begin, s.eraseEnd) ELSE s.map

\* assign, "remove internal elements": m_map after line 79
AssignErase(s) ==
    IF DoErase(s) THEN EraseRange(s.map, s.eraseBegin, s.eraseEnd) ELSE s.map

\* the test of line 29 written as keyBegin > keyEnd
EmptyInterval_OnlyGreater(keyBegin, keyEnd) == keyEnd < keyBegin

\* line 29
EmptyInterval(keyBegin, keyEnd) == ~(keyBegin < keyEnd)

\* assign carried out in two pieces, [keyBegin, keyBegin+1) and then
\* [keyBegin+1, keyEnd)
Assign_Split(m, keyBegin, keyEnd, val) ==
    LET Once(mm, b, e) == AssignErase(AssignEnd(AssignBegin(mm, b, val), e, val)) IN
    IF EmptyInterval(keyBegin, keyEnd)
    THEN m
    ELSE IF keyBegin + 1 < keyEnd
         THEN Once(Once(m, keyBegin, keyBegin + 1), keyBegin + 1, keyEnd)
         ELSE Once(m, keyBegin, keyEnd)

\* m_map after assign(keyBegin, keyEnd, val)
Assign(m, keyBegin, keyEnd, val) ==
    IF EmptyInterval(keyBegin, keyEnd)
    THEN m
    ELSE AssignErase(AssignEnd(AssignBegin(m, keyBegin, val), keyEnd, val))

\* ---- IntervalMapTest ----
\* for (int i = begin; i < end; ++i) A[i] = value;
Mirror(a, begin, end, value) ==
    [i \in DOMAIN a |-> IF begin <= i /\ i < end THEN value ELSE a[i]]

\* ---- the history the scenario follows ----
ScenarioNext(n, b, e, v) ==
    IF n = 0 /\ <<b, e, v>> = <<2, 5, 7>> THEN 1
    ELSE IF n = 1 /\ <<b, e, v>> = <<4, 8, 7>> THEN 2
    ELSE IF n = 2 /\ <<b, e, v>> = <<0, 10, 0>> THEN 3
    ELSE -1

\* ---- a client: interval_map(d), then any assign calls ----
Init ==
    /\ \E d \in Values : m_map = Construct(d)
    /\ A = [i \in Keys |-> 0]
    /\ pre_map = m_map
    /\ call = NoCall
    /\ scenario = -1

AssignCall(keyBegin, keyEnd, val) ==
    /\ m_map' = Assign(m_map, keyBegin, keyEnd, val)
    /\ pre_map' = m_map
    /\ call' = [keyBegin |-> keyBegin, keyEnd |-> keyEnd, val |-> val]
    /\ UNCHANGED <<A, scenario>>

Next == \E b \in Keys, e \in Keys, v \in Values : AssignCall(b, e, v)

Spec == Init /\ [][Next]_vars

\* ---- IntervalMapTest: m(0), A[] = {0}, random assigns mirrored into A ----
TestInit ==
    /\ m_map = Construct(0)
    /\ A = [i \in Keys |-> 0]
    /\ pre_map = m_map
    /\ call = NoCall
    /\ scenario = -1

TestIteration(begin, end, value) ==
    /\ m_map' = Assign(m_map, begin, end, value)
    /\ A' = Mirror(A, begin, end, value)
    /\ UNCHANGED <<pre_map, call, scenario>>

TestNext == \E b \in Keys, e \in Keys, v \in Values : TestIteration(b, e, v)

TestSpec == TestInit /\ [][TestNext]_vars

\* ---- the concrete scenario: interval_map(0), calls over its keys and values ----
ScenarioInit ==
    /\ m_map = Construct(0)
    /\ A = [i \in Keys |-> 0]
    /\ pre_map = m_map
    /\ call = NoCall
    /\ scenario = 0

ScenarioCall(keyBegin, keyEnd, val) ==
    /\ m_map' = Assign(m_map, keyBegin, keyEnd, val)
    /\ pre_map' = m_map
    /\ call' = [keyBegin |-> keyBegin, keyEnd |-> keyEnd, val |-> val]
    /\ scenario' = ScenarioNext(scenario, keyBegin, keyEnd, val)
    /\ UNCHANGED A

ScenarioStep == \E b \in ScenKeys, e \in ScenKeys, v \in ScenValues : ScenarioCall(b, e, v)

ScenarioSpec == ScenarioInit /\ [][ScenarioStep]_vars

TypeOK ==
    /\ DOMAIN m_map \subseteq (Keys \cup ScenKeys)
    /\ \A k \in DOMAIN m_map : m_map[k] \in (Values \cup ScenValues)

\* ---- properties ----
Size(m) == Cardinality(DOMAIN m)
Called == call # NoCall
NonEmptyCall == Called /\ call.keyBegin < call.keyEnd
MaxOf2(x, y) == IF x >= y THEN x ELSE y

\* C1: in IntervalMapTest, after every assign mirrored into A, operator[](i)
\* equals A[i] for every i of the key range.
C1_RefEquivalence == \A i \in Keys : Lookup(m_map, i) = A[i]

\* C2: canonical form (I2): no two entries of m_map that are consecutive in
\* key order hold equal values.
C2_Canonical ==
    \A k \in DOMAIN m_map :
        k # MinOf(DOMAIN m_map) => m_map[k] # m_map[Prev(m_map, k)]

\* C3: totality (I1): m_map is never empty and always holds an entry whose key
\* is numeric_limits<K>::lowest(); no assign erases it.
C3_Totality ==
    /\ DOMAIN m_map # {}
    /\ Lowest \in DOMAIN m_map
    /\ MinOf(DOMAIN m_map) = Lowest

\* an assign starting at the lowest key has removed entries, the first one stays
C3_Witness ==
    /\ NonEmptyCall
    /\ call.keyBegin = Lowest
    /\ Size(m_map) < Size(pre_map)
    /\ Lowest \in DOMAIN m_map

\* C4: frame of assign: after assign(keyBegin, keyEnd, val) with
\* keyBegin < keyEnd, every key outside [keyBegin, keyEnd) looks up the value
\* it looked up before the call.
C4_Frame ==
    NonEmptyCall =>
        \A k \in Keys :
            (k < call.keyBegin \/ k >= call.keyEnd) =>
                Lookup(m_map, k) = Lookup(pre_map, k)

\* C5: overwrite by assign: after assign(keyBegin, keyEnd, val) with
\* keyBegin < keyEnd, every key of [keyBegin, keyEnd) looks up val.
C5_Overwrite ==
    NonEmptyCall =>
        \A k \in Keys :
            (call.keyBegin <= k /\ k < call.keyEnd) => Lookup(m_map, k) = call.val

\* C6: from interval_map(0): after assign(2,5,7) the keys 1, 2, 4, 5 look up
\* 0, 7, 7, 0; after the following assign(4,8,7) the keys 4, 5, 7, 8 look up
\* 7, 7, 7, 0 and the breakpoint (5, 0) is gone.
C6_ScenarioFirstTwo ==
    /\ scenario = 1 =>
        /\ Lookup(m_map, 1) = 0
        /\ Lookup(m_map, 2) = 7
        /\ Lookup(m_map, 4) = 7
        /\ Lookup(m_map, 5) = 0
    /\ scenario = 2 =>
        /\ Lookup(m_map, 4) = 7
        /\ Lookup(m_map, 5) = 7
        /\ Lookup(m_map, 7) = 7
        /\ Lookup(m_map, 8) = 0
        /\ ~(5 \in DOMAIN m_map /\ m_map[5] = 0)

\* C7: from interval_map(0): after assign(2,5,7); assign(4,8,7); assign(0,10,0)
\* the map is exactly the one entry (lowest key, 0).
C7_ScenarioReset == scenario = 3 => m_map = Construct(0)

\* C8: assign(b, e, v) with !(b < e) leaves the entries of m_map, keys and
\* values, exactly as they were, and so every lookup.
C8_EmptyNoOp ==
    (Called /\ ~(call.keyBegin < call.keyEnd)) =>
        /\ m_map = pre_map
        /\ \A k \in Keys : Lookup(m_map, k) = Lookup(pre_map, k)

\* an assign with keyBegin = keyEnd has been made on a map of several entries,
\* at a key that is not stored and with a value that key does not look up
C8_Witness ==
    /\ Called
    /\ call.keyBegin = call.keyEnd
    /\ Size(pre_map) > 2
    /\ call.keyBegin \notin DOMAIN pre_map
    /\ Lookup(pre_map, call.keyBegin) # call.val

\* C9: assign(b,e,v); assign(b,e,v) leaves the same map as one assign(b,e,v).
C9_Idempotent ==
    Called => Assign(m_map, call.keyBegin, call.keyEnd, call.val) = m_map

\* an assign has inserted both of its boundaries and erased what lay between
C9_Witness ==
    /\ NonEmptyCall
    /\ call.keyBegin \notin DOMAIN pre_map
    /\ call.keyBegin \in DOMAIN m_map
    /\ call.keyEnd \in DOMAIN m_map \ DOMAIN pre_map
    /\ \E k \in DOMAIN pre_map \ DOMAIN m_map : call.keyBegin < k /\ k < call.keyEnd

\* C10: for a < b, c < d, a <= c <= b, the map after assign(a,b,v);
\* assign(c,d,v) has no more entries than the map after assign(a,max(b,d),v).
C10_Compression ==
    NonEmptyCall =>
        \A c \in Keys, d \in Keys :
            (c < d /\ call.keyBegin <= c /\ c <= call.keyEnd) =>
                Size(Assign(m_map, c, d, call.val))
                    <= Size(Assign(pre_map, call.keyBegin, MaxOf2(call.keyEnd, d), call.val))

\* the positions a --it may start from: those that have a predecessor
HasPrev(m, it) ==
    IF it = END THEN DOMAIN m # {} ELSE \E x \in DOMAIN m : x < it

\* the locals of the last assign after its "insert keyBegin" part
LastBegin == AssignBegin(pre_map, call.keyBegin, call.val)

\* the locals of the last assign after its "insert keyEnd" part
LastEnd == AssignEnd(LastBegin, call.keyEnd, call.val)

\* C11: an assign leaves at most two entries more than it found.
C11_BoundedGrowth == Called => Size(m_map) <= Size(pre_map) + 2

\* an assign has added two entries
C11_Witness == NonEmptyCall /\ Size(m_map) = Size(pre_map) + 2

\* C12: no failed search is used: operator[](key) finds an entry with a key
\* <= key for every key, and in every assign the --prev of line 47 and the
\* --prev of line 67 start from a position that has a predecessor.
C12_SearchesSucceed ==
    /\ \A key \in Keys :
        /\ HasPrev(m_map, upper_bound(m_map, key))
        /\ Prev(m_map, upper_bound(m_map, key)) <= key
    /\ \A b \in Keys, e \in Keys, v \in Values :
        b < e =>
            /\ LET begin == lower_bound(m_map, b) IN
                   (begin = END \/ begin # b) => HasPrev(m_map, begin)
            /\ LET m1 == AssignBegin(m_map, b, v).map
                   end == lower_bound(m1, e)
               IN  (end = END \/ end # e) => HasPrev(m1, end)

\* the last assign has taken both predecessor steps, the first of them from
\* the past-the-end position
C12_Witness ==
    /\ NonEmptyCall
    /\ lower_bound(pre_map, call.keyBegin) = END
    /\ Size(pre_map) > 1
    /\ LET end == lower_bound(LastBegin.map, call.keyEnd) IN
           end = END \/ end # call.keyEnd

\* C13: after assign(keyBegin, keyEnd, val) with keyBegin < keyEnd the map
\* holds no entry with a key strictly between keyBegin and keyEnd.
C13_InteriorErased ==
    NonEmptyCall =>
        \A k \in DOMAIN m_map : ~(call.keyBegin < k /\ k < call.keyEnd)

\* m_map of the last assign right after the insert of line 72, before the
\* "next is redundant" erase
LastAtEndInsert == Insert(LastBegin.map, call.keyEnd, LastEnd.endValue)

\* the entry at k differs in value from the entry before it and from the entry
\* after it, where there is one
DiffersFromNeighbours(m, k) ==
    /\ HasPrev(m, k) => m[Prev(m, k)] # m[k]
    /\ Succ(m, k) # END => m[Succ(m, k)] # m[k]

\* C14: whenever assign inserts an entry, at keyBegin or at keyEnd, the
\* inserted value differs at that moment from the value of the entry right
\* before it and from the value of the entry right after it.
C14_NoRedundantInsertion ==
    NonEmptyCall =>
        /\ LastBegin.inserted => DiffersFromNeighbours(LastBegin.map, call.keyBegin)
        /\ LastEnd.inserted => DiffersFromNeighbours(LastAtEndInsert, call.keyEnd)

\* C15: every entry that an assign(keyBegin, keyEnd, val) removes has a key
\* strictly between keyBegin and keyEnd; the "next is redundant" erase of
\* line 75 removes no entry with a key greater than keyEnd.
C15_RemovalsInside ==
    Called =>
        /\ \A k \in DOMAIN pre_map \ DOMAIN m_map :
               call.keyBegin < k /\ k < call.keyEnd
        /\ NonEmptyCall => (LastEnd.erased # END => ~(LastEnd.erased > call.keyEnd))

\* C16: where no entry with key keyEnd is stored before the call, the endValue
\* that decides the insert of (keyEnd, endValue) at line 70 is the value that
\* keyEnd looked up before the call.
C16_TailValue ==
    (NonEmptyCall /\ call.keyEnd \notin DOMAIN pre_map) =>
        LastEnd.endValue = Lookup(pre_map, call.keyEnd)

\* C17: after assign(keyBegin, keyEnd, val) with keyBegin < keyEnd, keyBegin
\* looks up val, whether its entry was overwritten, inserted or skipped.
C17_LeftBoundary ==
    NonEmptyCall => Lookup(m_map, call.keyBegin) = call.val

\* the insert at keyBegin was skipped as redundant and the call changed the map
C17_Witness ==
    /\ NonEmptyCall
    /\ call.keyBegin \notin DOMAIN pre_map
    /\ ~LastBegin.inserted
    /\ m_map # pre_map


\* C18: whenever the range erase of line 79 runs, the entry eraseBegin refers
\* to is still stored (it is not the one line 75 erased) and its key is less
\* than that of eraseEnd; whenever line 75 erases the entry eraseBegin refers
\* to, the flag erase is false.
C18_EraseLive ==
    NonEmptyCall =>
        /\ DoErase(LastEnd) =>
            /\ LastEnd.eraseBegin \in DOMAIN LastEnd.map
            /\ LastEnd.eraseBegin # LastEnd.erased
            /\ LastEnd.eraseBegin < LastEnd.eraseEnd
        /\ (LastEnd.erased # END /\ LastEnd.erased = LastEnd.eraseBegin) => ~LastEnd.erase

\* line 75 has erased the entry eraseBegin refers to
C18_Witness ==
    /\ NonEmptyCall
    /\ LastEnd.erased # END
    /\ LastEnd.erased = LastEnd.eraseBegin

====
